---- MODULE Spec2Model ----
(***************************************************************************)
(* Model of resize_powerpoint.py: PowerPointResizer (calculate_uniform_    *)
(* scale, resize_and_reposition_shape, scale_text_frame, organize_slide,   *)
(* process_presentation) and main.                                         *)
(*                                                                         *)
(* Lengths are integers (EMU in the program).  Python's true division and  *)
(* the float arithmetic that follows it are modelled by exact rationals    *)
(* <<n, d>> with d > 0 in lowest terms; int() is truncation toward zero.   *)
(* The document model (python-pptx) is the environment: which elements a   *)
(* document holds, which capabilities they expose and which of their       *)
(* accessors raise are inputs drawn from bounded sets.                     *)
(***************************************************************************)
EXTENDS Integers, Sequences, FiniteSets, TLC

VARIABLES
    pc,             \* position of the run: main, load, calc, canvas, slides, save, exit
    input_exists,   \* os.path.exists(args.input)
    scale_mode,     \* self.scale_mode
    target_width,   \* self.target_width
    target_height,  \* self.target_height
    prs,            \* the loaded presentation: slide_width, slide_height, slides
    original,       \* the presentation as it was loaded (history)
    loaded,         \* Presentation(input_file) returned
    descriptor,     \* scale_x, scale_y, offset_x, offset_y of process_presentation
    i,              \* index of the slide the loop of process_presentation is at
    j,              \* index of the shape the loop of organize_slide is at
    visited,        \* <<slide, shape>> pairs passed to resize_and_reposition_shape (history)
    calcs,          \* number of calls of calculate_uniform_scale (history)
    canvas_writes,  \* number of times slide_width/slide_height were overwritten (history)
    save_attempts,  \* number of calls of prs.save (history)
    saved,          \* prs.save returned
    warnings,       \* number of "Warning:" lines printed (history)
    result,         \* return value of process_presentation: "none", "True", "False", "raised"
    exit_code       \* argument of sys.exit, -1 while running

vars == <<pc, input_exists, scale_mode, target_width, target_height, prs, original,
          loaded, descriptor, i, j, visited, calcs, canvas_writes, save_attempts,
          saved, warnings, result, exit_code>>

----------------------------------------------------------------------------
(* Bounds of the model *)

MaxSlides == 2
MaxShapes == 2
MaxDim == 5

----------------------------------------------------------------------------
(* Arithmetic: Python '/' and float expressions as exact rationals *)

Abs(n) == IF n < 0 THEN -n ELSE n

RECURSIVE GCD(_, _)
GCD(a, b) == IF b = 0 THEN a ELSE GCD(b, a % b)

\* n / d for d # 0, in lowest terms with a positive denominator
Frac(n, d) ==
    LET g == GCD(Abs(n), Abs(d))
        s == IF d < 0 THEN -1 ELSE 1
    IN  <<(s * n) \div g, (s * d) \div g>>

FromInt(n) == <<n, 1>>

FMul(a, b) == Frac(a[1] * b[1], a[2] * b[2])
FAdd(a, b) == Frac(a[1] * b[2] + b[1] * a[2], a[2] * b[2])
FSub(a, b) == Frac(a[1] * b[2] - b[1] * a[2], a[2] * b[2])
FHalf(a) == Frac(a[1], a[2] * 2)
FLeq(a, b) == a[1] * b[2] <= b[1] * a[2]
FMin(a, b) == IF FLeq(a, b) THEN a ELSE b
FMax(a, b) == IF FLeq(b, a) THEN a ELSE b

\* Variant: floor instead of truncation toward zero
TruncFloor(a) == a[1] \div a[2]

\* int(x): truncation toward zero
Trunc(a) == IF a[1] >= 0 THEN a[1] \div a[2] ELSE -((-a[1]) \div a[2])

----------------------------------------------------------------------------
(* calculate_uniform_scale *)

\* width_scale or height_scale raises ZeroDivisionError
ScaleRaises(original_width, original_height) ==
    original_width = 0 \/ original_height = 0

\* Variant: 'fit' takes the larger factor
FitScaleLarger(width_scale, height_scale) == FMax(width_scale, height_scale)

FitScale(width_scale, height_scale) == FMin(width_scale, height_scale)

\* Variant: 'fill' takes the smaller factor
FillScaleSmaller(width_scale, height_scale) == FMin(width_scale, height_scale)

FillScale(width_scale, height_scale) == FMax(width_scale, height_scale)

CenterOffset(target, source, scale) ==
    FHalf(FSub(FromInt(target), FMul(FromInt(source), scale)))

\* Variant: 'stretch' forces one factor on both axes
StretchDescriptorUniform(width_scale, height_scale) ==
    [scale_x |-> FMin(width_scale, height_scale), scale_y |-> FMin(width_scale, height_scale),
     offset_x |-> FromInt(0), offset_y |-> FromInt(0)]

StretchDescriptor(width_scale, height_scale) ==
    [scale_x |-> width_scale, scale_y |-> height_scale,
     offset_x |-> FromInt(0), offset_y |-> FromInt(0)]

calculate_uniform_scale(mode, tw, th, original_width, original_height) ==
    LET width_scale == Frac(tw, original_width)
        height_scale == Frac(th, original_height)
        scale == IF mode = "fit" THEN FitScale(width_scale, height_scale)
                 ELSE FillScale(width_scale, height_scale)
    IN  IF mode \in {"fit", "fill"}
        THEN [scale_x |-> scale, scale_y |-> scale,
              offset_x |-> CenterOffset(tw, original_width, scale),
              offset_y |-> CenterOffset(th, original_height, scale)]
        ELSE StretchDescriptor(width_scale, height_scale)

----------------------------------------------------------------------------
(* Shapes, text runs and documents *)

\* A text run: font.size (0 stands for a falsy size, None or 0) and whether
\* assigning font.size raises.
Run(size, raises) == [size |-> size, raises |-> raises]

\* A shape: the attributes hasattr() finds, their values, the runs of its
\* text frame (paragraph by paragraph, flattened in iteration order) and the
\* accessor that raises for it ("none" when none does).
Shape(has_pos, has_size, has_text, left, top, width, height, runs, fault) ==
    [has_pos |-> has_pos, has_size |-> has_size, has_text |-> has_text,
     left |-> left, top |-> top, width |-> width, height |-> height,
     runs |-> runs, fault |-> fault]

Catalogue ==
    << Shape(TRUE, TRUE, FALSE, 1, 1, 2, 2, <<>>, "none"),
       Shape(TRUE, TRUE, TRUE, -1, 3, 4, 1,
             <<Run(12, FALSE), Run(0, FALSE), Run(7, FALSE)>>, "none"),
       Shape(TRUE, TRUE, TRUE, 2, 1, 3, 2, <<Run(9, FALSE)>>, "left"),
       Shape(FALSE, FALSE, TRUE, 0, 0, 0, 0, <<Run(5, FALSE)>>, "none"),
       Shape(TRUE, TRUE, TRUE, 2, 1, 3, 2, <<Run(9, FALSE)>>, "top"),
       Shape(TRUE, TRUE, TRUE, 2, 5, 1, 3,
             <<Run(10, FALSE), Run(11, TRUE), Run(8, FALSE)>>, "none"),
       Shape(TRUE, TRUE, TRUE, 2, 1, 3, 2, <<Run(9, FALSE)>>, "width"),
       Shape(TRUE, FALSE, FALSE, 3, -2, 0, 0, <<>>, "none"),
       Shape(TRUE, TRUE, TRUE, 2, 1, 3, 2, <<Run(9, FALSE)>>, "height"),
       Shape(TRUE, TRUE, TRUE, 1, 2, 2, 3, <<Run(9, FALSE)>>, "text_frame") >>

CatalogueAt(k) == Catalogue[((k - 1) % Len(Catalogue)) + 1]

\* Number of shapes on slide s of the document whose first slide holds m shapes
SlideLen(m, s) == (m + s - 1) % (MaxShapes + 1)

\* The document of n slides whose shapes are taken from the catalogue from
\* entry a on, MaxShapes entries apart from slide to slide.
Slides(a, n, m) ==
    [s \in 1..n |->
        [k \in 1..SlideLen(m, s) |-> CatalogueAt(a + (s - 1) * MaxShapes + (k - 1))]]

SlideSets == {Slides(a, n, m) : a \in 1..Len(Catalogue), n \in 0..MaxSlides, m \in 0..MaxShapes}

SourceCanvases == {<<10, 10>>, <<4, 3>>, <<0, 10>>, <<10, -5>>}

TargetCanvases == {<<36, 48>>, <<48, 36>>, <<5, 5>>, <<0, 48>>, <<36, -12>>}

Modes == {"fit", "fill", "stretch"}

Presentation(w, h, slides) == [slide_width |-> w, slide_height |-> h, slides |-> slides]

NoPresentation == Presentation(0, 0, <<>>)

NoDescriptor == StretchDescriptor(FromInt(0), FromInt(0))

----------------------------------------------------------------------------
(* scale_text_frame *)

ScaledFontSize(size, scale_factor) == Trunc(FMul(FromInt(size), scale_factor))

\* The loop over the runs from run k on; an assignment that raises ends it.
RECURSIVE scale_runs(_, _, _)
scale_runs(runs, k, scale_factor) ==
    IF k > Len(runs) THEN runs
    ELSE IF runs[k].size = 0 THEN scale_runs(runs, k + 1, scale_factor)
    ELSE IF runs[k].raises THEN runs
    ELSE scale_runs([runs EXCEPT ![k].size = ScaledFontSize(runs[k].size, scale_factor)],
                    k + 1, scale_factor)

scale_text_frame(runs, scale_factor) == scale_runs(runs, 1, scale_factor)

\* scale_text_frame prints "Warning: Could not scale text"
TextWarns(runs) == \E k \in 1..Len(runs) : runs[k].size # 0 /\ runs[k].raises

----------------------------------------------------------------------------
(* resize_and_reposition_shape *)

ScaledPosition(old, scale, offset) == Trunc(FAdd(FMul(FromInt(old), scale), offset))

ScaledSize(old, scale) == Trunc(FMul(FromInt(old), scale))

\* Variant: fonts always follow the horizontal factor
FontScaleFirstAxis(scale_x, scale_y) == scale_x

FontScale(scale_x, scale_y) ==
    IF scale_x # scale_y THEN FMin(scale_x, scale_y) ELSE scale_x

\* The sub-step at which the body of the try block raises, "none" when it
\* runs to its end.
RaisedAt(shape) ==
    IF shape.has_pos /\ shape.fault \in {"left", "top"} THEN shape.fault
    ELSE IF shape.has_size /\ shape.fault \in {"width", "height"} THEN shape.fault
    ELSE IF shape.has_text /\ shape.fault = "text_frame" THEN shape.fault
    ELSE "none"

Reposition(shape, d) ==
    IF ~shape.has_pos \/ shape.fault = "left" THEN shape
    ELSE LET s1 == [shape EXCEPT !.left = ScaledPosition(shape.left, d.scale_x, d.offset_x)]
         IN  IF shape.fault = "top" THEN s1
             ELSE [s1 EXCEPT !.top = ScaledPosition(shape.top, d.scale_y, d.offset_y)]

\* Variant: height is assigned before width
ResizeHeightFirst(shape, d) ==
    IF ~shape.has_size \/ shape.fault = "height" THEN shape
    ELSE LET s1 == [shape EXCEPT !.height = ScaledSize(shape.height, d.scale_y)]
         IN  IF shape.fault = "width" THEN s1
             ELSE [s1 EXCEPT !.width = ScaledSize(shape.width, d.scale_x)]

Resize(shape, d) ==
    IF ~shape.has_size \/ shape.fault = "width" THEN shape
    ELSE LET s1 == [shape EXCEPT !.width = ScaledSize(shape.width, d.scale_x)]
         IN  IF shape.fault = "height" THEN s1
             ELSE [s1 EXCEPT !.height = ScaledSize(shape.height, d.scale_y)]

ScaleText(shape, d) ==
    IF ~shape.has_text \/ shape.fault = "text_frame" THEN shape
    ELSE [shape EXCEPT !.runs = scale_text_frame(shape.runs, FontScale(d.scale_x, d.scale_y))]

resize_and_reposition_shape(shape, d) ==
    LET at == RaisedAt(shape)
        s1 == Reposition(shape, d)
        s2 == IF at \in {"left", "top"} THEN s1 ELSE Resize(s1, d)
    IN  IF at \in {"left", "top", "width", "height"} THEN s2 ELSE ScaleText(s2, d)

\* Number of warnings the call prints
ShapeWarnings(shape) ==
    IF RaisedAt(shape) # "none" THEN 1
    ELSE IF shape.has_text /\ TextWarns(shape.runs) THEN 1 ELSE 0

----------------------------------------------------------------------------
(* main and process_presentation *)

\* Variant: the exit code ignores the result
ExitCodeZero(success) == 0

\* sys.exit(0) when process_presentation returned True, sys.exit(1) otherwise
ExitCode(success) == IF success THEN 0 ELSE 1

\* Variant: no except clause, an element that raises ends the run
AfterShapeUncaught(shape) == IF ShapeWarnings(shape) > 0 THEN "exit" ELSE "slides"

\* Where the run goes after resize_and_reposition_shape: its except clause
\* catches every Exception, so the loop of organize_slide goes on.
AfterShape(shape) == "slides"

\* Variant: the loop skips every other item
NextIndexSkipping(k) == k + 2

\* The next index of a for loop
NextIndex(k) == k + 1

\* The slide dimensions after lines 141-142
ResizedCanvas(p, tw, th) == [p EXCEPT !.slide_width = tw, !.slide_height = th]

Init ==
    /\ pc = "main"
    /\ input_exists \in BOOLEAN
    /\ scale_mode \in Modes
    /\ \E c \in TargetCanvases :
            /\ target_width = c[1]
            /\ target_height = c[2]
    /\ prs = NoPresentation
    /\ original = NoPresentation
    /\ loaded = FALSE
    /\ descriptor = NoDescriptor
    /\ i = 0
    /\ j = 0
    /\ visited = <<>>
    /\ calcs = 0
    /\ canvas_writes = 0
    /\ save_attempts = 0
    /\ saved = FALSE
    /\ warnings = 0
    /\ result = "none"
    /\ exit_code = -1

\* main: the input file does not exist
MainMissingInput ==
    /\ pc = "main"
    /\ ~input_exists
    /\ exit_code' = 1
    /\ pc' = "exit"
    /\ UNCHANGED <<input_exists, scale_mode, target_width, target_height, prs, original,
                   loaded, descriptor, i, j, visited, calcs, canvas_writes,
                   save_attempts, saved, warnings, result>>

\* main: the resizer is built and process_presentation is called
MainStart ==
    /\ pc = "main"
    /\ input_exists
    /\ pc' = "load"
    /\ UNCHANGED <<input_exists, scale_mode, target_width, target_height, prs, original,
                   loaded, descriptor, i, j, visited, calcs, canvas_writes,
                   save_attempts, saved, warnings, result, exit_code>>

\* process_presentation: Presentation(input_file) raises
LoadFails ==
    /\ pc = "load"
    /\ result' = "False"
    /\ exit_code' = ExitCode(FALSE)
    /\ pc' = "exit"
    /\ UNCHANGED <<input_exists, scale_mode, target_width, target_height, prs, original,
                   loaded, descriptor, i, j, visited, calcs, canvas_writes,
                   save_attempts, saved, warnings>>

\* process_presentation: Presentation(input_file) returns a document
Load ==
    /\ pc = "load"
    /\ \E c \in SourceCanvases, s \in SlideSets :
            /\ prs' = Presentation(c[1], c[2], s)
            /\ original' = Presentation(c[1], c[2], s)
    /\ loaded' = TRUE
    /\ pc' = "calc"
    /\ UNCHANGED <<input_exists, scale_mode, target_width, target_height,
                   descriptor, i, j, visited, calcs, canvas_writes,
                   save_attempts, saved, warnings, result, exit_code>>

\* process_presentation: calculate_uniform_scale raises ZeroDivisionError,
\* which nothing catches: the interpreter ends with status 1
CalculateScaleRaises ==
    /\ pc = "calc"
    /\ ScaleRaises(prs.slide_width, prs.slide_height)
    /\ result' = "raised"
    /\ exit_code' = 1
    /\ pc' = "exit"
    /\ UNCHANGED <<input_exists, scale_mode, target_width, target_height, prs, original,
                   loaded, descriptor, i, j, visited, calcs, canvas_writes,
                   save_attempts, saved, warnings>>

\* process_presentation: the original size is read and the scale computed
CalculateScale ==
    /\ pc = "calc"
    /\ ~ScaleRaises(prs.slide_width, prs.slide_height)
    /\ descriptor' = calculate_uniform_scale(scale_mode, target_width, target_height,
                                              prs.slide_width, prs.slide_height)
    /\ calcs' = calcs + 1
    /\ pc' = "canvas"
    /\ UNCHANGED <<input_exists, scale_mode, target_width, target_height, prs, original,
                   loaded, i, j, visited, canvas_writes, save_attempts, saved,
                   warnings, result, exit_code>>

\* process_presentation: the slide dimensions are overwritten
ResizeCanvas ==
    /\ pc = "canvas"
    /\ prs' = ResizedCanvas(prs, target_width, target_height)
    /\ canvas_writes' = canvas_writes + 1
    /\ i' = 1
    /\ j' = 1
    /\ pc' = "slides"
    /\ UNCHANGED <<input_exists, scale_mode, target_width, target_height, original,
                   loaded, descriptor, visited, calcs, save_attempts, saved,
                   warnings, result, exit_code>>

\* organize_slide: one iteration of its loop, a call of resize_and_reposition_shape
ResizeShape ==
    /\ pc = "slides"
    /\ i <= Len(prs.slides)
    /\ j <= Len(prs.slides[i])
    /\ prs' = [prs EXCEPT !.slides[i][j] = resize_and_reposition_shape(@, descriptor)]
    /\ warnings' = warnings + ShapeWarnings(prs.slides[i][j])
    /\ visited' = Append(visited, <<i, j>>)
    /\ j' = NextIndex(j)
    /\ pc' = AfterShape(prs.slides[i][j])
    /\ UNCHANGED <<input_exists, scale_mode, target_width, target_height, original,
                   loaded, descriptor, i, calcs, canvas_writes, save_attempts, saved,
                   result, exit_code>>

\* process_presentation: organize_slide returned, the loop goes to the next slide
NextSlide ==
    /\ pc = "slides"
    /\ i <= Len(prs.slides)
    /\ j > Len(prs.slides[i])
    /\ i' = NextIndex(i)
    /\ j' = 1
    /\ UNCHANGED <<pc, input_exists, scale_mode, target_width, target_height, prs,
                   original, loaded, descriptor, visited, calcs, canvas_writes,
                   save_attempts, saved, warnings, result, exit_code>>

\* process_presentation: prs.save raises
SaveFails ==
    /\ pc = "slides"
    /\ i > Len(prs.slides)
    /\ save_attempts' = save_attempts + 1
    /\ result' = "False"
    /\ exit_code' = ExitCode(FALSE)
    /\ pc' = "exit"
    /\ UNCHANGED <<input_exists, scale_mode, target_width, target_height, prs, original,
                   loaded, descriptor, i, j, visited, calcs, canvas_writes, saved,
                   warnings>>

\* process_presentation: prs.save returns
Save ==
    /\ pc = "slides"
    /\ i > Len(prs.slides)
    /\ save_attempts' = save_attempts + 1
    /\ saved' = TRUE
    /\ result' = "True"
    /\ exit_code' = ExitCode(TRUE)
    /\ pc' = "exit"
    /\ UNCHANGED <<input_exists, scale_mode, target_width, target_height, prs, original,
                   loaded, descriptor, i, j, visited, calcs, canvas_writes, warnings>>

Next ==
    \/ MainMissingInput
    \/ MainStart
    \/ LoadFails
    \/ Load
    \/ CalculateScaleRaises
    \/ CalculateScale
    \/ ResizeCanvas
    \/ ResizeShape
    \/ NextSlide
    \/ SaveFails
    \/ Save

Spec == Init /\ [][Next]_vars

----------------------------------------------------------------------------
(* calculate_uniform_scale on its own: the call of process_presentation for *)
(* every source and target canvas of a range                               *)

ScaleDims == (-1..MaxDim) \cup {10, 36, 48}

InitScale ==
    /\ pc = "calc"
    /\ input_exists = TRUE
    /\ scale_mode \in Modes
    /\ target_width \in ScaleDims
    /\ target_height \in ScaleDims
    /\ \E w \in ScaleDims, h \in ScaleDims :
            /\ prs = Presentation(w, h, <<>>)
            /\ original = Presentation(w, h, <<>>)
    /\ loaded = TRUE
    /\ descriptor = NoDescriptor
    /\ i = 0
    /\ j = 0
    /\ visited = <<>>
    /\ calcs = 0
    /\ canvas_writes = 0
    /\ save_attempts = 0
    /\ saved = FALSE
    /\ warnings = 0
    /\ result = "none"
    /\ exit_code = -1

NextScale ==
    \/ CalculateScaleRaises
    \/ CalculateScale

SpecScale == InitScale /\ [][NextScale]_vars

----------------------------------------------------------------------------
(* Vocabulary of the properties *)

PositiveCanvases ==
    /\ target_width > 0 /\ target_height > 0
    /\ original.slide_width > 0 /\ original.slide_height > 0

\* t is n/d (d > 0) truncated toward zero
IsTrunc(t, n, d) ==
    IF n >= 0 THEN t * d <= n /\ n < (t + 1) * d
    ELSE (t - 1) * d < n /\ n <= t * d

\* t is old * scale + offset truncated toward zero
IsScaledPosition(t, old, scale, offset) ==
    IsTrunc(t, old * scale[1] * offset[2] + offset[1] * scale[2], scale[2] * offset[2])

\* t is old * scale truncated toward zero
IsScaled(t, old, scale) == IsTrunc(t, old * scale[1], scale[2])

\* q is the quotient n / d of two lengths, d > 0
IsQuotient(q, n, d) == q[2] > 0 /\ q[1] * d = n * q[2]

SmallerScale == IF FLeq(descriptor.scale_x, descriptor.scale_y)
                THEN descriptor.scale_x ELSE descriptor.scale_y

Old(p) == original.slides[p[1]][p[2]]
New(p) == prs.slides[p[1]][p[2]]

Visited == {visited[n] : n \in 1..Len(visited)}

SlideOrder(s, n) == [k \in 1..n |-> <<s, k>>]

RECURSIVE DocumentOrderFrom(_, _)
DocumentOrderFrom(slides, s) ==
    IF s > Len(slides) THEN <<>>
    ELSE SlideOrder(s, Len(slides[s])) \o DocumentOrderFrom(slides, s + 1)

\* Every <<slide, shape>> of the document, slides in order, shapes in order
DocumentOrder == DocumentOrderFrom(original.slides, 1)

\* The first run of the shape whose font size assignment raises, 0 if none
FirstRaisingRun(o) ==
    IF \E r \in 1..Len(o.runs) : o.runs[r].size # 0 /\ o.runs[r].raises
    THEN CHOOSE r \in 1..Len(o.runs) :
            /\ o.runs[r].size # 0 /\ o.runs[r].raises
            /\ \A q \in 1..(r - 1) : ~(o.runs[q].size # 0 /\ o.runs[q].raises)
    ELSE 0

\* The sub-step of the shape's transform that raises: "none", an attribute,
\* "text_frame" or "run"
FailsAt(o) ==
    IF o.has_pos /\ o.fault \in {"left", "top"} THEN o.fault
    ELSE IF o.has_size /\ o.fault \in {"width", "height"} THEN o.fault
    ELSE IF o.has_text /\ o.fault = "text_frame" THEN "text_frame"
    ELSE IF o.has_text /\ FirstRaisingRun(o) # 0 THEN "run"
    ELSE "none"

PositionScaled(o, n) ==
    /\ IsScaledPosition(n.left, o.left, descriptor.scale_x, descriptor.offset_x)
    /\ IsScaledPosition(n.top, o.top, descriptor.scale_y, descriptor.offset_y)

SizeScaled(o, n) ==
    /\ IsScaled(n.width, o.width, descriptor.scale_x)
    /\ IsScaled(n.height, o.height, descriptor.scale_y)

\* Runs 1..last of the shape: those with a font size are scaled by the
\* smaller of the two factors, the others keep a falsy size
RunsScaled(o, n, last) ==
    \A r \in 1..last :
        IF o.runs[r].size = 0 THEN n.runs[r].size = 0
        ELSE IsScaled(n.runs[r].size, o.runs[r].size, SmallerScale)

RunsKept(o, n, first) ==
    \A r \in first..Len(o.runs) : n.runs[r] = o.runs[r]

----------------------------------------------------------------------------
(* Properties of calculate_uniform_scale, checked under SpecScale *)

\* C1: for positive source and target canvases, mode 'fit' returns
\* scale_x = scale_y = min(target.width/source.width, target.height/source.height)
\* and the centering offsets, and the scaled source canvas placed at the
\* offsets lies inside the target canvas.
FitInsideTarget ==
    (pc = "canvas" /\ scale_mode = "fit" /\ PositiveCanvases) =>
        LET d == descriptor
            sc == d.scale_x
            ow == original.slide_width
            oh == original.slide_height
            sw == FMul(FromInt(ow), sc)
            sh == FMul(FromInt(oh), sc)
        IN  /\ d.scale_x = d.scale_y
            /\ FLeq(sc, <<target_width, ow>>) /\ FLeq(sc, <<target_height, oh>>)
            /\ IsQuotient(sc, target_width, ow) \/ IsQuotient(sc, target_height, oh)
            /\ FAdd(d.offset_x, d.offset_x) = FSub(FromInt(target_width), sw)
            /\ FAdd(d.offset_y, d.offset_y) = FSub(FromInt(target_height), sh)
            /\ FLeq(FromInt(0), d.offset_x) /\ FLeq(FromInt(0), d.offset_y)
            /\ FLeq(FAdd(d.offset_x, sw), FromInt(target_width))
            /\ FLeq(FAdd(d.offset_y, sh), FromInt(target_height))

\* 10x10 fitted into 36x48: scale 3.6, a margin of 6 above and below
FitWitness ==
    /\ pc = "canvas" /\ scale_mode = "fit"
    /\ original.slide_width = 10 /\ original.slide_height = 10
    /\ target_width = 36 /\ target_height = 48
    /\ descriptor.scale_x = <<18, 5>>
    /\ descriptor.offset_x = <<0, 1>> /\ descriptor.offset_y = <<6, 1>>

\* C2: for positive source and target canvases, mode 'fill' returns
\* scale_x = scale_y = max(target.width/source.width, target.height/source.height)
\* and the centering offsets, and the scaled source canvas covers the target
\* on at least one axis, with that axis' offset <= 0.
FillCoversTarget ==
    (pc = "canvas" /\ scale_mode = "fill" /\ PositiveCanvases) =>
        LET d == descriptor
            sc == d.scale_x
            ow == original.slide_width
            oh == original.slide_height
            sw == FMul(FromInt(ow), sc)
            sh == FMul(FromInt(oh), sc)
        IN  /\ d.scale_x = d.scale_y
            /\ FLeq(<<target_width, ow>>, sc) /\ FLeq(<<target_height, oh>>, sc)
            /\ IsQuotient(sc, target_width, ow) \/ IsQuotient(sc, target_height, oh)
            /\ FAdd(d.offset_x, d.offset_x) = FSub(FromInt(target_width), sw)
            /\ FAdd(d.offset_y, d.offset_y) = FSub(FromInt(target_height), sh)
            /\ \/ FLeq(FromInt(target_width), sw) /\ FLeq(d.offset_x, FromInt(0))
               \/ FLeq(FromInt(target_height), sh) /\ FLeq(d.offset_y, FromInt(0))

\* 10x10 filling 36x48: scale 4.8, 6 units cut off left and right
FillWitness ==
    /\ pc = "canvas" /\ scale_mode = "fill"
    /\ original.slide_width = 10 /\ original.slide_height = 10
    /\ target_width = 36 /\ target_height = 48
    /\ descriptor.scale_x = <<24, 5>>
    /\ descriptor.offset_x = <<-6, 1>> /\ descriptor.offset_y = <<0, 1>>

\* C3: for positive source and target canvases, mode 'stretch' returns
\* scale_x = target.width/source.width, scale_y = target.height/source.height
\* and both offsets 0.
StretchIndependentAxes ==
    (pc = "canvas" /\ scale_mode = "stretch" /\ PositiveCanvases) =>
        /\ IsQuotient(descriptor.scale_x, target_width, original.slide_width)
        /\ IsQuotient(descriptor.scale_y, target_height, original.slide_height)
        /\ descriptor.offset_x = FromInt(0)
        /\ descriptor.offset_y = FromInt(0)

\* 10x10 stretched to 36x48: the two factors differ
StretchWitness ==
    /\ pc = "canvas" /\ scale_mode = "stretch"
    /\ original.slide_width = 10 /\ original.slide_height = 10
    /\ target_width = 36 /\ target_height = 48
    /\ descriptor.scale_x = <<18, 5>> /\ descriptor.scale_y = <<24, 5>>
    /\ descriptor.scale_x # descriptor.scale_y

----------------------------------------------------------------------------
(* Properties of the run, checked under Spec *)

\* C4: a non-positive source or target canvas dimension is rejected before
\* any computation or mutation: no scale is computed, the canvas is not
\* overwritten, no element is changed, nothing is saved, and the run ends
\* with a non-zero exit code.
NonPositiveDimensionRejected ==
    ( \/ target_width <= 0 \/ target_height <= 0
      \/ loaded /\ (original.slide_width <= 0 \/ original.slide_height <= 0) ) =>
        /\ calcs = 0
        /\ canvas_writes = 0
        /\ visited = <<>>
        /\ prs = original
        /\ save_attempts = 0
        /\ pc = "exit" => exit_code # 0

\* C5: an element whose transform raises never aborts the run: once the
\* scale is computed the run visits every element of every slide, every
\* element that raises nothing is transformed in full, the document is
\* saved, and the run succeeds if the save does.
ElementFailureNeverAborts ==
    (pc = "exit" /\ calcs = 1) =>
        /\ visited = DocumentOrder
        /\ \A p \in Visited :
              FailsAt(Old(p)) = "none" =>
                /\ Old(p).has_pos => PositionScaled(Old(p), New(p))
                /\ Old(p).has_size => SizeScaled(Old(p), New(p))
                /\ Old(p).has_text => RunsScaled(Old(p), New(p), Len(Old(p).runs))
        /\ save_attempts = 1
        /\ saved => (result = "True" /\ exit_code = 0)

\* A saved run in which an element was transformed after another had raised
ElementFailureWitness ==
    /\ pc = "exit" /\ saved /\ result = "True" /\ warnings > 0
    /\ \E a, b \in 1..Len(visited) :
          /\ a < b
          /\ FailsAt(Old(visited[a])) # "none"
          /\ FailsAt(Old(visited[b])) = "none"
          /\ New(visited[b]) # Old(visited[b])

\* C6 as stated: an element whose transform raises at any sub-step keeps
\* its position, size and font sizes of before the run (stated for positive
\* source and target canvases).
FailedElementUnchanged ==
    \A p \in Visited :
        (PositiveCanvases /\ FailsAt(Old(p)) # "none") =>
            /\ New(p).left = Old(p).left /\ New(p).top = Old(p).top
            /\ New(p).width = Old(p).width /\ New(p).height = Old(p).height
            /\ New(p).runs = Old(p).runs

\* C6 as amended: an element whose transform raises keeps the transformed
\* values of the attributes assigned before the sub-step that raised (in
\* the order left, top, width, height, font sizes run by run), and the
\* attribute that raised and all later ones keep their values of before
\* the run.
FailedElementKeepsEarlierSubSteps ==
    \A p \in Visited :
        LET o == Old(p)
            n == New(p)
            at == FailsAt(o)
            after_pos == at \in {"width", "height", "text_frame", "run"}
            after_size == at \in {"text_frame", "run"}
        IN  at # "none" =>
              /\ IF o.has_pos /\ (after_pos \/ at = "top")
                 THEN IsScaledPosition(n.left, o.left, descriptor.scale_x, descriptor.offset_x)
                 ELSE n.left = o.left
              /\ IF o.has_pos /\ after_pos
                 THEN IsScaledPosition(n.top, o.top, descriptor.scale_y, descriptor.offset_y)
                 ELSE n.top = o.top
              /\ IF o.has_size /\ (after_size \/ at = "height")
                 THEN IsScaled(n.width, o.width, descriptor.scale_x)
                 ELSE n.width = o.width
              /\ IF o.has_size /\ after_size
                 THEN IsScaled(n.height, o.height, descriptor.scale_y)
                 ELSE n.height = o.height
              /\ IF at = "run"
                 THEN /\ RunsScaled(o, n, FirstRaisingRun(o) - 1)
                      /\ RunsKept(o, n, FirstRaisingRun(o))
                 ELSE n.runs = o.runs

\* An element whose height assignment raised: width rewritten, height not
FailedElementWitness ==
    \E p \in Visited :
        /\ FailsAt(Old(p)) = "height"
        /\ New(p).left # Old(p).left
        /\ New(p).width # Old(p).width
        /\ New(p).height = Old(p).height
        /\ New(p).runs = Old(p).runs

\* C7: the run succeeds (True, exit code 0) exactly when the input file
\* exists, the load succeeded and the save succeeded; every other run ends
\* with exit code 1; after a failed load no element is transformed and no
\* save is attempted.
RunResult ==
    /\ pc # "exit" => exit_code = -1
    /\ pc = "exit" =>
          /\ exit_code \in {0, 1}
          /\ exit_code = 0 <=> (input_exists /\ loaded /\ saved)
          /\ result = "True" <=> exit_code = 0
          /\ ~input_exists => (result = "none" /\ ~loaded)
    /\ ~loaded =>
          /\ prs = NoPresentation
          /\ calcs = 0 /\ canvas_writes = 0
          /\ visited = <<>>
          /\ save_attempts = 0 /\ ~saved

\* A run whose save failed after its elements were transformed
RunResultWitness ==
    /\ pc = "exit" /\ input_exists /\ loaded
    /\ visited # <<>> /\ save_attempts = 1 /\ ~saved
    /\ result = "False" /\ exit_code = 1

\* C8: an element with position and size whose position and size
\* assignments raise nothing gets left = trunc(left*scale_x + offset_x),
\* top = trunc(top*scale_y + offset_y), width = trunc(width*scale_x),
\* height = trunc(height*scale_y), truncated toward zero and computed from
\* its values of before the run; 10x10 to 36x48 takes (1,1,2,2) to
\* (3,4,7,9) under stretch and to (3,9,7,7) under fit.
PositionSizeTruncated ==
    \A p \in Visited :
        LET o == Old(p)
            n == New(p)
        IN  (o.has_pos /\ o.has_size /\ FailsAt(o) \in {"none", "text_frame", "run"}) =>
              /\ PositionScaled(o, n)
              /\ SizeScaled(o, n)
              /\ ( /\ original.slide_width = 10 /\ original.slide_height = 10
                   /\ target_width = 36 /\ target_height = 48
                   /\ <<o.left, o.top, o.width, o.height>> = <<1, 1, 2, 2>> ) =>
                    /\ scale_mode = "stretch" =>
                          <<n.left, n.top, n.width, n.height>> = <<3, 4, 7, 9>>
                    /\ scale_mode = "fit" =>
                          <<n.left, n.top, n.width, n.height>> = <<3, 9, 7, 7>>

\* 10x10 filling 36x48 takes (1,1,2,2) to left = trunc(4.8 - 6) = -1
PositionSizeWitness ==
    /\ scale_mode = "fill"
    /\ original.slide_width = 10 /\ original.slide_height = 10
    /\ target_width = 36 /\ target_height = 48
    /\ \E p \in Visited :
          /\ <<Old(p).left, Old(p).top, Old(p).width, Old(p).height>> = <<1, 1, 2, 2>>
          /\ <<New(p).left, New(p).top, New(p).width, New(p).height>> = <<-1, 4, 9, 9>>

\* C9: in a text-bearing element whose transform raises nothing, every run
\* with a font size gets trunc(size * min(scale_x, scale_y)), the same
\* factor for all runs of all elements; runs without a font size and
\* elements without a text frame keep their font data and print no warning.
FontSizesScaled ==
    /\ \A p \in Visited :
          LET o == Old(p)
              n == New(p)
          IN  /\ Len(n.runs) = Len(o.runs)
              /\ (o.has_text /\ FailsAt(o) = "none") => RunsScaled(o, n, Len(o.runs))
              /\ ~o.has_text => n.runs = o.runs
    /\ warnings = Cardinality({p \in Visited : FailsAt(Old(p)) # "none"})

\* 48x36 from 10x10 under stretch: sizes 12, none, 7 become 43, none, 25
FontSizesWitness ==
    /\ scale_mode = "stretch"
    /\ descriptor.scale_x = <<24, 5>> /\ descriptor.scale_y = <<18, 5>>
    /\ \E p \in Visited :
          /\ Len(Old(p).runs) = 3
          /\ <<Old(p).runs[1].size, Old(p).runs[2].size, Old(p).runs[3].size>> = <<12, 0, 7>>
          /\ <<New(p).runs[1].size, New(p).runs[2].size, New(p).runs[3].size>> = <<43, 0, 25>>

\* C10: the scale is computed once, from the original canvas size; the
\* canvas is then overwritten once with the target size, before any element
\* is transformed; elements are visited once each, slides in order and
\* shapes in order within a slide; no slide or element is created, deleted
\* or reordered; the save comes after the last element.
ProcessingOrder ==
    /\ calcs <= 1 /\ canvas_writes <= 1 /\ save_attempts <= 1
    /\ calcs = 1 =>
          /\ descriptor = calculate_uniform_scale(scale_mode, target_width, target_height,
                                                   original.slide_width, original.slide_height)
    /\ canvas_writes = 1 =>
          /\ calcs = 1
          /\ prs.slide_width = target_width /\ prs.slide_height = target_height
    /\ canvas_writes = 0 => (prs = original /\ visited = <<>>)
    /\ Len(visited) <= Len(DocumentOrder)
    /\ visited = SubSeq(DocumentOrder, 1, Len(visited))
    /\ save_attempts = 1 => visited = DocumentOrder
    /\ result = "True" => (save_attempts = 1 /\ canvas_writes = 1)
    /\ Len(prs.slides) = Len(original.slides)
    /\ \A s \in 1..Len(original.slides) :
          /\ Len(prs.slides[s]) = Len(original.slides[s])
          /\ \A k \in 1..Len(original.slides[s]) :
                /\ prs.slides[s][k].fault = original.slides[s][k].fault
                /\ prs.slides[s][k].has_pos = original.slides[s][k].has_pos
                /\ prs.slides[s][k].has_size = original.slides[s][k].has_size
                /\ prs.slides[s][k].has_text = original.slides[s][k].has_text
                /\ <<s, k>> \notin Visited => prs.slides[s][k] = original.slides[s][k]

\* A successful run over two slides and at least three elements
ProcessingOrderWitness ==
    /\ pc = "exit" /\ result = "True"
    /\ Len(original.slides) = 2
    /\ Len(visited) >= 3
    /\ visited[1][1] = 1 /\ visited[Len(visited)][1] = 2

====
